---------------------------- MODULE Spec2Model ----------------------------
(***************************************************************************)
(* Model of renode-research/stm32f3-uart/test-c/main.c: bare-metal STM32F3 *)
(* firmware that brings up USART1 and two GPIO pins, prints a greeting and *)
(* then polls the user button on PA0, printing a message and toggling the  *)
(* LED on PE9 on every release.                                            *)
(*                                                                         *)
(* A 32-bit register value is modelled as the set of its set bit numbers   *)
(* (a subset of 0..31), so |, &, ^ and ~ are set union, intersection,      *)
(* symmetric difference and complement.  Program positions are named after *)
(* the source line about to execute ("L57" is main.c line 57).             *)
(***************************************************************************)
EXTENDS Integers, Sequences, FiniteSets

(***************************************************************************)
(* Bounds of the model.                                                    *)
(***************************************************************************)
\* Number of button samples the main loop takes before the model stops it.
MaxSamples == 5
\* Longest input string (terminator excluded) given to uart_puts on its own.
MaxLen == 3
\* Level changes of the button the model lets happen during one uart_puts call.
MaxMissed == 2

(***************************************************************************)
(* 32-bit words as bit sets.                                               *)
(***************************************************************************)
WordBits == 0..31

RECURSIVE Bits(_)
\* The bit set of a natural number (its binary digits).
Bits(n) == IF n = 0 THEN {}
           ELSE (IF n % 2 = 1 THEN {0} ELSE {}) \cup {b + 1 : b \in Bits(n \div 2)}

\* v << k, truncated to 32 bits.
Shl(v, k) == {b + k : b \in v} \cap WordBits
BitOr(a, b) == a \cup b
BitAnd(a, b) == a \cap b
BitXor(a, b) == (a \ b) \cup (b \ a)
BitNot(a) == WordBits \ a

(***************************************************************************)
(* Register bit definitions (main.c lines 16-19 and 36-39).                *)
(***************************************************************************)
RCC_AHBENR_GPIOAEN == Shl(Bits(1), 17)
RCC_AHBENR_GPIOEEN == Shl(Bits(1), 21)
RCC_APB2ENR_USART1EN == Shl(Bits(1), 14)
USART_CR1_UE == Shl(Bits(1), 0)
USART_CR1_TE == Shl(Bits(1), 3)
USART_ISR_TXE == Shl(Bits(1), 7)

\* Character codes and the two string literals, each with its terminating NUL.
NUL == 0
LF == 10
CR == 13
HelloStr == <<104, 101, 108, 108, 111, 32, 119, 111, 114, 108, 100, 33, 10, 0>>
ButtonStr == <<98, 117, 116, 116, 111, 110, 32, 112, 114, 101, 115, 115, 101,
               100, 10, 0>>

\* The baud divisor the code writes, and the figures its comment derives it from.
BrrValue == 69
AssumedClockHz == 8000000
TargetBaud == 115200

(***************************************************************************)
(* The hardware state the program may find at reset: the documented reset  *)
(* values, every bit set, and the two alternating bit patterns.            *)
(***************************************************************************)
RegNames == {"RCC_AHBENR", "RCC_APB2ENR", "GPIOA_MODER", "GPIOA_AFRH",
             "GPIOE_MODER", "GPIOE_ODR", "USART1_BRR", "USART1_CR1"}
\* Registers whose writes are counted: the above and the write-only USART1_TDR.
WrittenRegs == RegNames \cup {"USART1_TDR"}
EvenBits == {b \in WordBits : b % 2 = 0}
OddBits == {b \in WordBits : b % 2 = 1}
ResetImage == [r \in RegNames |->
                 CASE r = "RCC_AHBENR" -> {2, 4}
                   [] r = "GPIOA_MODER" -> {27, 29, 31}
                   [] OTHER -> {}]
RegImages == {ResetImage,
              [r \in RegNames |-> WordBits],
              [r \in RegNames |-> EvenBits],
              [r \in RegNames |-> OddBits]}

\* Values a read of USART1_ISR may return: TXE (bit 7) and TC (bit 6) in
\* every combination.
IsrValues == {{}, {6}, {7}, {6, 7}}
\* Values a read of GPIOA_IDR may return: PA0 and PA1 in every combination.
IdrValues == {{}, {0}, {1}, {0, 1}}

VARIABLES
    pc,                 \* position of control
    stack,              \* return addresses of the calls in progress
    regs,               \* the memory-mapped registers the program writes
    regs0,              \* their values at reset (history)
    str, s,             \* uart_puts: the string memory and the pointer s
    c,                  \* uart_putc: its argument
    isr,                \* the value the last read of USART1_ISR returned
    button_is_pressed,  \* main's local
    button_state,       \* main's local
    tx,                 \* every byte written to USART1_TDR, in order (history)
    samples,            \* every button level sampled, in order (history)
    toggles,            \* writes in the loop that inverted GPIOE_ODR bit 9 (history)
    led_entry,          \* level of GPIOE_ODR bit 9 when the loop was entered (history)
    writes,             \* number of writes to each register (history)
    pin,                \* the level of PA0 (hardware state)
    missed,             \* level changes of PA0 during the latest uart_puts call (history)
    last                \* the last register access <<register, kind>>, or the
                        \* exception taken since <<"exception", name>> (history)

vars == <<pc, stack, regs, regs0, str, s, c, isr, button_is_pressed,
          button_state, tx, samples, toggles, led_entry, writes, pin, missed,
          last>>

putsVars == <<str, s>>
pinVars == <<pin, missed>>
loopVars == <<button_is_pressed, button_state, samples, toggles, led_entry>>

\* A write of value v to register r.
WriteReg(r, v) ==
    /\ regs' = [regs EXCEPT ![r] = v]
    /\ writes' = [writes EXCEPT ![r] = @ + 1]
    /\ last' = <<r, "write">>

(***************************************************************************)
(* uart_putc (lines 41-44)                                                 *)
(***************************************************************************)
\* Variant of line 42 that leaves the loop after one read, whatever it returned.
uart_putc_wait_once ==
    /\ pc = "L42"
    /\ \E v \in IsrValues : isr' = v
    /\ pc' = "L43"
    /\ last' = <<"USART1_ISR", "read">>
    /\ UNCHANGED <<stack, regs, regs0, c, tx, writes>>
    /\ UNCHANGED putsVars
    /\ UNCHANGED loopVars
    /\ UNCHANGED pinVars

\* Variant of line 42 with the test inverted: the loop is left when TXE is clear.
uart_putc_wait_inverted ==
    /\ pc = "L42"
    /\ \E v \in IsrValues :
          /\ isr' = v
          /\ pc' = IF BitAnd(v, USART_ISR_TXE) # {} THEN "L42" ELSE "L43"
    /\ last' = <<"USART1_ISR", "read">>
    /\ UNCHANGED <<stack, regs, regs0, c, tx, writes>>
    /\ UNCHANGED putsVars
    /\ UNCHANGED loopVars
    /\ UNCHANGED pinVars

\* line 42: one read of USART1_ISR; leave the loop when TXE is set.
uart_putc_wait ==
    /\ pc = "L42"
    /\ \E v \in IsrValues :
          /\ isr' = v
          /\ pc' = IF BitAnd(v, USART_ISR_TXE) # {} THEN "L43" ELSE "L42"
    /\ last' = <<"USART1_ISR", "read">>
    /\ UNCHANGED <<stack, regs, regs0, c, tx, writes>>
    /\ UNCHANGED putsVars
    /\ UNCHANGED loopVars
    /\ UNCHANGED pinVars

\* line 43-44: USART1_TDR = c, then return.
uart_putc_write ==
    /\ pc = "L43"
    /\ tx' = Append(tx, c)
    /\ writes' = [writes EXCEPT !["USART1_TDR"] = @ + 1]
    /\ last' = <<"USART1_TDR", "write">>
    /\ pc' = Head(stack)
    /\ stack' = Tail(stack)
    /\ UNCHANGED <<regs, regs0, c, isr>>
    /\ UNCHANGED putsVars
    /\ UNCHANGED loopVars
    /\ UNCHANGED pinVars

(***************************************************************************)
(* uart_puts (lines 46-53)                                                 *)
(***************************************************************************)
\* line 47: while (*s); return at the terminator.
uart_puts_test ==
    /\ pc = "L47"
    /\ IF str[s] # NUL
          THEN pc' = "L48" /\ stack' = stack
          ELSE pc' = Head(stack) /\ stack' = Tail(stack)
    /\ UNCHANGED <<regs, regs0, c, isr, tx, writes, last>>
    /\ UNCHANGED putsVars
    /\ UNCHANGED loopVars
    /\ UNCHANGED pinVars

\* Variant of lines 48-50 that never sends the carriage return.
uart_puts_cr_never ==
    /\ pc = "L48"
    /\ pc' = "L51"
    /\ UNCHANGED <<c, stack>>
    /\ UNCHANGED <<regs, regs0, isr, tx, writes, last>>
    /\ UNCHANGED putsVars
    /\ UNCHANGED loopVars
    /\ UNCHANGED pinVars

\* lines 48-50: if (*s == '\n') uart_putc('\r');
uart_puts_cr ==
    /\ pc = "L48"
    /\ IF str[s] = LF
          THEN /\ c' = CR
               /\ stack' = <<"L51">> \o stack
               /\ pc' = "L42"
          ELSE /\ pc' = "L51"
               /\ UNCHANGED <<c, stack>>
    /\ UNCHANGED <<regs, regs0, isr, tx, writes, last>>
    /\ UNCHANGED putsVars
    /\ UNCHANGED loopVars
    /\ UNCHANGED pinVars

\* line 51: uart_putc(*s++);
uart_puts_char ==
    /\ pc = "L51"
    /\ c' = str[s]
    /\ s' = s + 1
    /\ stack' = <<"L47">> \o stack
    /\ pc' = "L42"
    /\ UNCHANGED <<regs, regs0, str, isr, tx, writes, last>>
    /\ UNCHANGED loopVars
    /\ UNCHANGED pinVars

\* A call of uart_puts on the literal lit, returning to ret.
CallPuts(lit, ret) ==
    /\ str' = lit
    /\ s' = 1
    /\ stack' = <<ret>> \o stack
    /\ pc' = "L47"
    /\ missed' = 0
    /\ pin' = pin

(***************************************************************************)
(* main: peripheral bring-up (lines 55-77)                                 *)
(***************************************************************************)
\* What a bring-up statement leaves alone.
bringUpFrame == <<stack, regs0, c, isr, tx, str, s, button_is_pressed,
                  button_state, samples, toggles, led_entry>>

\* Variant of line 57 that assigns the enable bits instead of or-ing them in.
main_enable_gpio_clocks_assign ==
    /\ pc = "L57"
    /\ pc' = "L58"
    /\ WriteReg("RCC_AHBENR", BitOr(RCC_AHBENR_GPIOAEN, RCC_AHBENR_GPIOEEN))
    /\ UNCHANGED bringUpFrame
    /\ UNCHANGED pinVars

\* line 57: RCC_AHBENR |= RCC_AHBENR_GPIOAEN | RCC_AHBENR_GPIOEEN;
main_enable_gpio_clocks ==
    /\ pc = "L57"
    /\ pc' = "L58"
    /\ WriteReg("RCC_AHBENR",
                BitOr(regs["RCC_AHBENR"],
                      BitOr(RCC_AHBENR_GPIOAEN, RCC_AHBENR_GPIOEEN)))
    /\ UNCHANGED bringUpFrame
    /\ UNCHANGED pinVars

\* line 58: RCC_APB2ENR |= RCC_APB2ENR_USART1EN;
main_enable_usart_clock ==
    /\ pc = "L58"
    /\ pc' = "L62"
    /\ WriteReg("RCC_APB2ENR", BitOr(regs["RCC_APB2ENR"], RCC_APB2ENR_USART1EN))
    /\ UNCHANGED bringUpFrame
    /\ UNCHANGED pinVars

\* line 62: GPIOA_MODER &= ~(3 << (9 * 2));
main_pa9_mode_clear ==
    /\ pc = "L62"
    /\ pc' = "L63"
    /\ WriteReg("GPIOA_MODER",
                BitAnd(regs["GPIOA_MODER"], BitNot(Shl(Bits(3), 9 * 2))))
    /\ UNCHANGED bringUpFrame
    /\ UNCHANGED pinVars

\* line 63: GPIOA_MODER |= (2 << (9 * 2));
main_pa9_mode_set ==
    /\ pc = "L63"
    /\ pc' = "L67"
    /\ WriteReg("GPIOA_MODER", BitOr(regs["GPIOA_MODER"], Shl(Bits(2), 9 * 2)))
    /\ UNCHANGED bringUpFrame
    /\ UNCHANGED pinVars

\* Variant of lines 66-67 that clears a 2-bit field instead of the 4-bit one.
main_pa9_af_clear_narrow ==
    /\ pc = "L67"
    /\ pc' = "L68"
    /\ WriteReg("GPIOA_AFRH", BitAnd(regs["GPIOA_AFRH"], BitNot(Shl(Bits(3), 4))))
    /\ UNCHANGED bringUpFrame
    /\ UNCHANGED pinVars

\* lines 66-67: *GPIOA_AFRH &= ~(0xF << 4);
main_pa9_af_clear ==
    /\ pc = "L67"
    /\ pc' = "L68"
    /\ WriteReg("GPIOA_AFRH", BitAnd(regs["GPIOA_AFRH"], BitNot(Shl(Bits(15), 4))))
    /\ UNCHANGED bringUpFrame
    /\ UNCHANGED pinVars

\* line 68: *GPIOA_AFRH |= (7 << 4);
main_pa9_af_set ==
    /\ pc = "L68"
    /\ pc' = "L71"
    /\ WriteReg("GPIOA_AFRH", BitOr(regs["GPIOA_AFRH"], Shl(Bits(7), 4)))
    /\ UNCHANGED bringUpFrame
    /\ UNCHANGED pinVars

\* line 71: GPIOE_MODER &= ~(3 << (9 * 2));
main_pe9_mode_clear ==
    /\ pc = "L71"
    /\ pc' = "L72"
    /\ WriteReg("GPIOE_MODER",
                BitAnd(regs["GPIOE_MODER"], BitNot(Shl(Bits(3), 9 * 2))))
    /\ UNCHANGED bringUpFrame
    /\ UNCHANGED pinVars

\* line 72: GPIOE_MODER |= (1 << (9 * 2));
main_pe9_mode_set ==
    /\ pc = "L72"
    /\ pc' = "L76"
    /\ WriteReg("GPIOE_MODER", BitOr(regs["GPIOE_MODER"], Shl(Bits(1), 9 * 2)))
    /\ UNCHANGED bringUpFrame
    /\ UNCHANGED pinVars

\* Variant of line 76 that ors the divisor into the register.
main_write_brr_or ==
    /\ pc = "L76"
    /\ pc' = "L77"
    /\ WriteReg("USART1_BRR", BitOr(regs["USART1_BRR"], Bits(BrrValue)))
    /\ UNCHANGED bringUpFrame
    /\ UNCHANGED pinVars

\* line 76: USART1_BRR = 69;
main_write_brr ==
    /\ pc = "L76"
    /\ pc' = "L77"
    /\ WriteReg("USART1_BRR", Bits(BrrValue))
    /\ UNCHANGED bringUpFrame
    /\ UNCHANGED pinVars

\* Variant of line 77 that enables the transmitter but not the USART.
main_write_cr1_te_only ==
    /\ pc = "L77"
    /\ pc' = "L80"
    /\ WriteReg("USART1_CR1", USART_CR1_TE)
    /\ UNCHANGED bringUpFrame
    /\ UNCHANGED pinVars

\* line 77: USART1_CR1 = USART_CR1_TE | USART_CR1_UE;
main_write_cr1 ==
    /\ pc = "L77"
    /\ pc' = "L80"
    /\ WriteReg("USART1_CR1", BitOr(USART_CR1_TE, USART_CR1_UE))
    /\ UNCHANGED bringUpFrame
    /\ UNCHANGED pinVars

(***************************************************************************)
(* main: greeting, LED on, button loop (lines 79-99)                       *)
(***************************************************************************)
\* line 80: uart_puts("hello world!\n");
main_greeting ==
    /\ pc = "L80"
    /\ CallPuts(HelloStr, "L83")
    /\ UNCHANGED <<regs, regs0, c, isr, tx, writes, last>>
    /\ UNCHANGED loopVars

\* Variant of line 83 that toggles the LED bit, as the comment of line 82 says.
main_led_on_toggles ==
    /\ pc = "L83"
    /\ pc' = "L86"
    /\ WriteReg("GPIOE_ODR", BitXor(regs["GPIOE_ODR"], Shl(Bits(1), 9)))
    /\ UNCHANGED <<stack, regs0, c, isr, tx>>
    /\ UNCHANGED putsVars
    /\ UNCHANGED loopVars
    /\ UNCHANGED pinVars

\* line 83: GPIOE_ODR |= (1 << 9);
main_led_on ==
    /\ pc = "L83"
    /\ pc' = "L86"
    /\ WriteReg("GPIOE_ODR", BitOr(regs["GPIOE_ODR"], Shl(Bits(1), 9)))
    /\ UNCHANGED <<stack, regs0, c, isr, tx>>
    /\ UNCHANGED putsVars
    /\ UNCHANGED loopVars
    /\ UNCHANGED pinVars

\* line 86: int button_is_pressed = 0;
main_init_button ==
    /\ pc = "L86"
    /\ pc' = "L89"
    /\ button_is_pressed' = 0
    /\ led_entry' = IF 9 \in regs["GPIOE_ODR"] THEN 1 ELSE 0
    /\ UNCHANGED <<stack, regs, regs0, c, isr, tx, writes, last>>
    /\ UNCHANGED <<button_state, samples, toggles>>
    /\ UNCHANGED putsVars
    /\ UNCHANGED pinVars

\* line 89: int button_state = (GPIOA_IDR & 1);
main_sample ==
    /\ pc = "L89"
    /\ Len(samples) < MaxSamples
    /\ \E v \in IdrValues :
          /\ (0 \in v) <=> (pin = 1)
          /\ button_state' = IF BitAnd(v, Bits(1)) # {} THEN 1 ELSE 0
          /\ samples' = Append(samples, button_state')
    /\ last' = <<"GPIOA_IDR", "read">>
    /\ pc' = "L91"
    /\ UNCHANGED <<stack, regs, regs0, c, isr, tx, writes>>
    /\ UNCHANGED <<button_is_pressed, toggles, led_entry>>
    /\ UNCHANGED putsVars
    /\ UNCHANGED pinVars

\* Variant of lines 91-93 whose second test ignores button_is_pressed.
main_decide_level ==
    /\ pc = "L91"
    /\ pc' = IF button_is_pressed = 0 /\ button_state # 0 THEN "L92"
             ELSE IF button_state = 0 THEN "L94"
             ELSE "L89"
    /\ UNCHANGED <<stack, regs, regs0, c, isr, tx, writes, last>>
    /\ UNCHANGED loopVars
    /\ UNCHANGED putsVars
    /\ UNCHANGED pinVars

\* Variant of lines 91-93 that leaves the loop when no edge is seen.
main_decide_break ==
    /\ pc = "L91"
    /\ pc' = IF button_is_pressed = 0 /\ button_state # 0 THEN "L92"
             ELSE IF button_is_pressed # 0 /\ button_state = 0 THEN "L94"
             ELSE "L101"
    /\ UNCHANGED <<stack, regs, regs0, c, isr, tx, writes, last>>
    /\ UNCHANGED loopVars
    /\ UNCHANGED putsVars
    /\ UNCHANGED pinVars

\* Variant of lines 91-93 whose second test reads GPIOA_IDR again.
main_decide_rereads ==
    /\ pc = "L91"
    /\ IF button_is_pressed = 0 /\ button_state # 0
          THEN pc' = "L92" /\ UNCHANGED <<button_state, samples, last>>
          ELSE /\ button_state' = pin
               /\ samples' = Append(samples, pin)
               /\ last' = <<"GPIOA_IDR", "read">>
               /\ pc' = IF button_is_pressed # 0 /\ button_state' = 0 THEN "L94"
                        ELSE "L89"
    /\ UNCHANGED <<stack, regs, regs0, c, isr, tx, writes>>
    /\ UNCHANGED <<button_is_pressed, toggles, led_entry>>
    /\ UNCHANGED putsVars
    /\ UNCHANGED pinVars

\* lines 91-93: the two conditions of the if / else if.
main_decide ==
    /\ pc = "L91"
    /\ pc' = IF button_is_pressed = 0 /\ button_state # 0 THEN "L92"
             ELSE IF button_is_pressed # 0 /\ button_state = 0 THEN "L94"
             ELSE "L89"
    /\ UNCHANGED <<stack, regs, regs0, c, isr, tx, writes, last>>
    /\ UNCHANGED loopVars
    /\ UNCHANGED putsVars
    /\ UNCHANGED pinVars

\* Variant of line 92 that also inverts the LED on the press edge.
main_press_toggles ==
    /\ pc = "L92"
    /\ pc' = "L89"
    /\ button_is_pressed' = 1
    /\ WriteReg("GPIOE_ODR", BitXor(regs["GPIOE_ODR"], Shl(Bits(1), 9)))
    /\ UNCHANGED <<stack, regs0, c, isr, tx>>
    /\ UNCHANGED <<button_state, samples, toggles, led_entry>>
    /\ UNCHANGED putsVars
    /\ UNCHANGED pinVars

\* line 92: button_is_pressed = 1;
main_press ==
    /\ pc = "L92"
    /\ pc' = "L89"
    /\ button_is_pressed' = 1
    /\ UNCHANGED <<stack, regs, regs0, c, isr, tx, writes, last>>
    /\ UNCHANGED <<button_state, samples, toggles, led_entry>>
    /\ UNCHANGED putsVars
    /\ UNCHANGED pinVars

\* Variant of line 94 that sends the greeting again.
main_release_message_hello ==
    /\ pc = "L94"
    /\ CallPuts(HelloStr, "L95")
    /\ UNCHANGED <<regs, regs0, c, isr, tx, writes, last>>
    /\ UNCHANGED loopVars

\* Variant of line 94 with the assignment of line 95 moved before the call.
main_release_message_clears_first ==
    /\ pc = "L94"
    /\ CallPuts(ButtonStr, "L95")
    /\ button_is_pressed' = 0
    /\ UNCHANGED <<regs, regs0, c, isr, tx, writes, last>>
    /\ UNCHANGED <<button_state, samples, toggles, led_entry>>

\* line 94: uart_puts("button pressed\n");
main_release_message ==
    /\ pc = "L94"
    /\ CallPuts(ButtonStr, "L95")
    /\ UNCHANGED <<regs, regs0, c, isr, tx, writes, last>>
    /\ UNCHANGED loopVars

\* Variant of line 95 that leaves button_is_pressed set.
main_release_clear_skipped ==
    /\ pc = "L95"
    /\ pc' = "L97"
    /\ UNCHANGED <<stack, regs, regs0, c, isr, tx, writes, last>>
    /\ UNCHANGED loopVars
    /\ UNCHANGED putsVars
    /\ UNCHANGED pinVars

\* line 95: button_is_pressed = 0;
main_release_clear ==
    /\ pc = "L95"
    /\ pc' = "L97"
    /\ button_is_pressed' = 0
    /\ UNCHANGED <<stack, regs, regs0, c, isr, tx, writes, last>>
    /\ UNCHANGED <<button_state, samples, toggles, led_entry>>
    /\ UNCHANGED putsVars
    /\ UNCHANGED pinVars

\* Variant of line 97 that inverts the whole register.
main_toggle_led_all_bits ==
    /\ pc = "L97"
    /\ pc' = "L89"
    /\ WriteReg("GPIOE_ODR", BitNot(regs["GPIOE_ODR"]))
    /\ toggles' = toggles + (IF (9 \in regs'["GPIOE_ODR"]) # (9 \in regs["GPIOE_ODR"])
                                THEN 1 ELSE 0)
    /\ UNCHANGED <<stack, regs0, c, isr, tx>>
    /\ UNCHANGED <<button_is_pressed, button_state, samples, led_entry>>
    /\ UNCHANGED putsVars
    /\ UNCHANGED pinVars

\* Variant of line 97 that sets the LED bit instead of inverting it.
main_toggle_led_sets ==
    /\ pc = "L97"
    /\ pc' = "L89"
    /\ WriteReg("GPIOE_ODR", BitOr(regs["GPIOE_ODR"], Shl(Bits(1), 9)))
    /\ toggles' = toggles + (IF (9 \in regs'["GPIOE_ODR"]) # (9 \in regs["GPIOE_ODR"])
                                THEN 1 ELSE 0)
    /\ UNCHANGED <<stack, regs0, c, isr, tx>>
    /\ UNCHANGED <<button_is_pressed, button_state, samples, led_entry>>
    /\ UNCHANGED putsVars
    /\ UNCHANGED pinVars

\* line 97: GPIOE_ODR ^= (1 << 9);
main_toggle_led ==
    /\ pc = "L97"
    /\ pc' = "L89"
    /\ WriteReg("GPIOE_ODR", BitXor(regs["GPIOE_ODR"], Shl(Bits(1), 9)))
    /\ toggles' = toggles + (IF (9 \in regs'["GPIOE_ODR"]) # (9 \in regs["GPIOE_ODR"])
                                THEN 1 ELSE 0)
    /\ UNCHANGED <<stack, regs0, c, isr, tx>>
    /\ UNCHANGED <<button_is_pressed, button_state, samples, led_entry>>
    /\ UNCHANGED putsVars
    /\ UNCHANGED pinVars

(***************************************************************************)
(* The button on PA0 (GPIOA_IDR, line 24): the hardware changes its level  *)
(* at any time.                                                            *)
(***************************************************************************)
\* Positions inside uart_puts and uart_putc.
UartPcs == {"L42", "L43", "L47", "L48", "L51"}

\* The level of PA0 changes; changes during a uart_puts call are counted.
pin_change ==
    /\ pc \in UartPcs => missed < MaxMissed
    /\ pin' = 1 - pin
    /\ missed' = IF pc \in UartPcs THEN missed + 1 ELSE missed
    /\ UNCHANGED <<pc, stack, regs, regs0, c, isr, tx, writes, last>>
    /\ UNCHANGED putsVars
    /\ UNCHANGED loopVars

(***************************************************************************)
(* Reset_Handler (lines 129-132)                                           *)
(***************************************************************************)
\* line 130: main();
Reset_Handler ==
    /\ pc = "L130"
    /\ pc' = "L57"
    /\ stack' = <<"L131">> \o stack
    /\ UNCHANGED <<regs, regs0, c, isr, tx, writes, last>>
    /\ UNCHANGED loopVars
    /\ UNCHANGED putsVars
    /\ UNCHANGED pinVars

(***************************************************************************)
(* The program from reset.                                                 *)
(***************************************************************************)
Init ==
    /\ pc = "L130"
    /\ stack = <<>>
    /\ regs0 \in RegImages
    /\ regs = regs0
    /\ str = <<NUL>>
    /\ s = 1
    /\ c = NUL
    /\ isr = {}
    /\ button_is_pressed \in {0, 1}   \* main's locals are not yet initialised
    /\ button_state = 0
    /\ tx = <<>>
    /\ samples = <<>>
    /\ toggles = 0
    /\ led_entry = 0
    /\ pin \in {0, 1}
    /\ missed = 0
    /\ writes = [r \in WrittenRegs |-> 0]
    /\ last = <<"none", "none">>

\* The steps of the processor.
Program ==
    \/ Reset_Handler
    \/ main_enable_gpio_clocks
    \/ main_enable_usart_clock
    \/ main_pa9_mode_clear
    \/ main_pa9_mode_set
    \/ main_pa9_af_clear
    \/ main_pa9_af_set
    \/ main_pe9_mode_clear
    \/ main_pe9_mode_set
    \/ main_write_brr
    \/ main_write_cr1
    \/ main_greeting
    \/ main_led_on
    \/ main_init_button
    \/ main_sample
    \/ main_decide
    \/ main_press
    \/ main_release_message
    \/ main_release_clear
    \/ main_toggle_led
    \/ uart_puts_test
    \/ uart_puts_cr
    \/ uart_puts_char
    \/ uart_putc_wait
    \/ uart_putc_write

\* The processor and the button.
Next ==
    \/ Program
    \/ pin_change

Spec == Init /\ [][Next]_vars

(***************************************************************************)
(* The program on hardware whose transmitter keeps up: the processor keeps *)
(* executing, and a uart_putc that keeps polling eventually reads TXE set. *)
(***************************************************************************)
\* A read of USART1_ISR at line 42 that returns TXE set.
TxeReadSet == uart_putc_wait /\ 7 \in isr'

SpecLive == Init /\ [][Next]_vars /\ WF_vars(Program) /\ WF_vars(TxeReadSet)

(***************************************************************************)
(* The vector table (lines 111-127), exception entry and Default_Handler   *)
(* (lines 134-136).                                                        *)
(***************************************************************************)
\* Variant of the table whose HardFault entry is the reset handler.
vector_table_hardfault_resets ==
    <<"_estack", "Reset_Handler", "Default_Handler", "Reset_Handler",
      "Default_Handler", "Default_Handler", "Default_Handler",
      "0", "0", "0", "0",
      "Default_Handler", "Default_Handler", "0", "Default_Handler",
      "Default_Handler">>

\* The table, entry n + 1 being the vector of exception number n.
vector_table ==
    <<"_estack",            \* initial stack pointer
      "Reset_Handler",      \* 1 reset
      "Default_Handler",    \* 2 NMI
      "Default_Handler",    \* 3 HardFault
      "Default_Handler",    \* 4 MemManage
      "Default_Handler",    \* 5 BusFault
      "Default_Handler",    \* 6 UsageFault
      "0", "0", "0", "0",   \* 7-10 reserved (null)
      "Default_Handler",    \* 11 SVCall
      "Default_Handler",    \* 12 Debug Monitor
      "0",                  \* 13 reserved (null)
      "Default_Handler",    \* 14 PendSV
      "Default_Handler">>   \* 15 SysTick

\* The name of exception number n, as the comments of the table give it.
ExceptionName ==
    <<"Reset", "NMI", "HardFault", "MemManage", "BusFault", "UsageFault",
      "Reserved", "Reserved", "Reserved", "Reserved", "SVCall",
      "Debug Monitor", "Reserved", "PendSV", "SysTick">>

\* First position of each handler.
HandlerEntry(h) == IF h = "Reset_Handler" THEN "L130" ELSE "L135"

\* Exception numbers the table has a vector for, reset excluded.
Exceptions == {n \in 2..(Len(vector_table) - 1) : vector_table[n + 1] # "0"}

\* The processor takes exception n: the interrupted position is stacked and
\* control enters the handler the table names.
take_exception ==
    /\ pc # "L135"
    /\ \E n \in Exceptions :
          /\ pc' = HandlerEntry(vector_table[n + 1])
          /\ last' = <<"exception", ExceptionName[n]>>
    /\ stack' = <<pc>> \o stack
    /\ UNCHANGED <<regs, regs0, c, isr, tx, writes>>
    /\ UNCHANGED putsVars
    /\ UNCHANGED loopVars
    /\ UNCHANGED pinVars

\* line 135: while (1);
Default_Handler ==
    /\ pc = "L135"
    /\ UNCHANGED vars

NextFault ==
    \/ Next
    \/ take_exception
    \/ Default_Handler

\* The program with exceptions delivered at any point.
SpecFault == Init /\ [][NextFault]_vars

(***************************************************************************)
(* uart_puts on its own, called once on an arbitrary bounded string.       *)
(***************************************************************************)
Alphabet == {LF, CR, 97}

RECURSIVE StringsUpTo(_)
\* All sequences over Alphabet of length at most n.
StringsUpTo(n) ==
    IF n = 0 THEN {<<>>}
    ELSE StringsUpTo(n - 1) \cup
         {Append(t, a) : t \in {u \in StringsUpTo(n - 1) : Len(u) = n - 1},
                         a \in Alphabet}

InitPuts ==
    /\ pc = "L47"
    /\ stack = <<"done">>
    /\ regs0 = ResetImage
    /\ regs = regs0
    /\ \E t \in StringsUpTo(MaxLen) : str = Append(t, NUL)
    /\ s = 1
    /\ c = NUL
    /\ isr = {}
    /\ button_is_pressed = 0
    /\ button_state = 0
    /\ tx = <<>>
    /\ samples = <<>>
    /\ toggles = 0
    /\ led_entry = 0
    /\ pin = 0
    /\ missed = 0
    /\ writes = [r \in WrittenRegs |-> 0]
    /\ last = <<"none", "none">>

NextPuts ==
    \/ uart_puts_test
    \/ uart_puts_cr
    \/ uart_puts_char
    \/ uart_putc_wait
    \/ uart_putc_write

SpecPuts == InitPuts /\ [][NextPuts]_vars

(***************************************************************************)
(* Reference definitions used by the properties below.                     *)
(***************************************************************************)
RECURSIVE CrLf(_)
\* t with every LF replaced by CR LF.
CrLf(t) ==
    IF t = <<>> THEN <<>>
    ELSE (IF Head(t) = LF THEN <<CR, LF>> ELSE <<Head(t)>>) \o CrLf(Tail(t))

\* The characters of the string at str, terminator excluded.
PutsInput == SubSeq(str, 1, Len(str) - 1)
\* The characters uart_puts has consumed so far.
PutsConsumed == SubSeq(str, 1, s - 1)
\* Number of line feeds in t.
CountLF(t) == Cardinality({i \in 1..Len(t) : t[i] = LF})

IsPrefix(a, b) == Len(a) <= Len(b) /\ SubSeq(b, 1, Len(a)) = a

(***************************************************************************)
(* C1: for every null-terminated string s over an alphabet containing LF   *)
(* and CR, the bytes uart_puts(s) writes to USART1_TDR are s with each LF  *)
(* replaced by CR LF and every other character unchanged and in order:     *)
(* on return the output is CrLf(s), its length is len(s) plus the number   *)
(* of LFs, and every emitted LF directly follows an emitted CR; at every   *)
(* loop test the output so far is CrLf of the characters consumed.         *)
(***************************************************************************)
C1_PutsCrLf ==
    /\ pc = "L47" => tx = CrLf(PutsConsumed)
    /\ pc = "done" =>
          /\ tx = CrLf(PutsInput)
          /\ Len(tx) = Len(PutsInput) + CountLF(PutsInput)
          /\ \A i \in 1..Len(tx) : tx[i] = LF => (i > 1 /\ tx[i - 1] = CR)

\* uart_puts has returned from "\na\n": five bytes went out.
C1_Witness ==
    /\ pc = "done"
    /\ PutsInput = <<LF, 97, LF>>
    /\ tx = <<CR, LF, 97, CR, LF>>

(***************************************************************************)
(* The byte streams the external interface names, and counts over the      *)
(* histories.                                                              *)
(***************************************************************************)
\* "hello world!\r\n"
HelloOut == <<104, 101, 108, 108, 111, 32, 119, 111, 114, 108, 100, 33, 13, 10>>
\* "button pressed\r\n"
ButtonOut == <<98, 117, 116, 116, 111, 110, 32, 112, 114, 101, 115, 115, 101,
               100, 13, 10>>

RECURSIVE Rep(_, _)
\* k copies of t.
Rep(t, k) == IF k = 0 THEN <<>> ELSE t \o Rep(t, k - 1)

RECURSIVE CountMsgs(_)
\* Number of complete "button pressed\r\n" messages t starts with.
CountMsgs(t) ==
    IF IsPrefix(ButtonOut, t)
       THEN 1 + CountMsgs(SubSeq(t, Len(ButtonOut) + 1, Len(t)))
       ELSE 0

\* What went out after the greeting.
AfterGreeting ==
    IF Len(tx) <= Len(HelloOut) THEN <<>>
    ELSE SubSeq(tx, Len(HelloOut) + 1, Len(tx))
Messages == CountMsgs(AfterGreeting)

\* Falling edges of a sample sequence: a 1 followed by the next 0.
FallingEdges(q) ==
    Cardinality({i \in 1..(Len(q) - 1) : q[i] = 1 /\ q[i + 1] = 0})
\* The sample sequence without its last sample.
Front(q) == SubSeq(q, 1, Len(q) - 1)
\* The level last sampled in q; low when nothing was sampled.
LastLevel(q) == IF q = <<>> THEN 0 ELSE q[Len(q)]

Led == IF 9 \in regs["GPIOE_ODR"] THEN 1 ELSE 0

(***************************************************************************)
(* C2: starting in Released, the number of complete "button pressed\r\n"   *)
(* messages and the number of LED toggles both equal the number of falling *)
(* edges of the sampled sequence whenever the next sample is about to be   *)
(* read; in between, neither runs ahead of the edges sampled so far nor    *)
(* falls behind the edges completed before the latest sample.              *)
(***************************************************************************)
C2_OnePerFallingEdge ==
    /\ pc = "L89" =>
          /\ Messages = FallingEdges(samples)
          /\ toggles = FallingEdges(samples)
    /\ samples # <<>> =>
          /\ Messages \in {FallingEdges(Front(samples)), FallingEdges(samples)}
          /\ toggles \in {FallingEdges(Front(samples)), FallingEdges(samples)}
    /\ samples = <<>> => Messages = 0 /\ toggles = 0

\* [0,1,1,0] has been sampled and handled: one message, one toggle.
C2_Witness ==
    /\ pc = "L89"
    /\ samples = <<0, 1, 1, 0>>
    /\ Messages = 1
    /\ toggles = 1
    /\ tx = HelloOut \o ButtonOut

\* A step taken at the sample, at the tests or at line 92 has no effect on
\* the UART stream or on any register.
C3_QuietStep ==
    pc \in {"L89", "L91", "L92"} =>
        (tx' = tx /\ regs' = regs /\ writes' = writes /\ toggles' = toggles)

(***************************************************************************)
(* C3: the steps of an iteration that takes the Released-to-Pressed        *)
(* transition or no transition (the sample, the two tests, the assignment  *)
(* of line 92) write no register and send no byte, so a sample sequence    *)
(* without a falling edge yields no message and no LED toggle: after the   *)
(* greeting nothing is sent and GPIOE_ODR keeps the value line 83 gave it. *)
(***************************************************************************)
C3_NoEdgeNoEffect ==
    /\ [][C3_QuietStep]_vars
    /\ [](FallingEdges(samples) = 0 /\ pc \in {"L89", "L91", "L92"} =>
             /\ tx = HelloOut
             /\ Messages = 0
             /\ toggles = 0
             /\ writes["GPIOE_ODR"] = 1
             /\ Led = led_entry)

\* Four high samples from Released: pressed, and nothing but the greeting sent.
C3_Witness ==
    /\ pc = "L89"
    /\ samples = <<1, 1, 1, 1>>
    /\ button_is_pressed = 1
    /\ tx = HelloOut
    /\ toggles = 0

(***************************************************************************)
(* C4: the bytes written to USART1_TDR so far are always a prefix of       *)
(* "hello world!\r\n" followed by repetitions of "button pressed\r\n".     *)
(***************************************************************************)
C4_OutputGrammar ==
    \E k \in 0..Len(samples) : IsPrefix(tx, HelloOut \o Rep(ButtonOut, k))

\* The greeting and one message are out, a second message is under way.
C4_Witness ==
    /\ IsPrefix(HelloOut \o ButtonOut, tx)
    /\ Len(tx) = Len(HelloOut) + Len(ButtonOut) + 7

(***************************************************************************)
(* C5: the LED is inverted on every completed press-release cycle: when a  *)
(* sample is about to be read after k falling edges, GPIOE_ODR bit 9 is    *)
(* its level at loop entry XOR (k mod 2).                                  *)
(***************************************************************************)
C5_LedParity ==
    pc = "L89" => Led = (led_entry + FallingEdges(samples)) % 2

\* Two press-release cycles done: the LED is back at its loop-entry level.
C5_Witness ==
    /\ pc = "L89"
    /\ samples = <<1, 0, 1, 0>>
    /\ toggles = 2
    /\ Led = led_entry

(***************************************************************************)
(* C6: button_is_pressed is the last level sampled, one sample late: when  *)
(* a sample is about to be read (the end of the previous iteration) it is  *)
(* the level of the latest sample, low before the first; right after a     *)
(* sample was read it still is the level of the sample before.             *)
(***************************************************************************)
C6_OneSampleLatency ==
    /\ pc = "L89" => button_is_pressed = LastLevel(samples)
    /\ pc = "L91" => button_is_pressed = LastLevel(Front(samples))

\* A release has been handled after a press: the flag follows 0,1,0.
C6_Witness ==
    /\ pc = "L89"
    /\ samples = <<0, 1, 0>>
    /\ button_is_pressed = 0
    /\ toggles = 1

\* What every step must satisfy for uart_putc to be gated by TXE.
C7_PutcStep ==
    /\ tx' # tx =>
          /\ pc = "L43"
          /\ last = <<"USART1_ISR", "read">>
          /\ 7 \in isr
          /\ tx' = Append(tx, c)
    /\ (pc = "L42" /\ 7 \notin isr') =>
          /\ pc' = "L42"
          /\ UNCHANGED <<stack, regs, str, s, c, tx, writes, samples, toggles,
                         button_is_pressed, button_state>>
    /\ pc = "L42" => (tx' = tx /\ writes' = writes)
    /\ (pc \in {"L42", "L43"} /\ pc' \notin {"L42", "L43"}) =>
          Len(tx') = Len(tx) + 1

(***************************************************************************)
(* C7: uart_putc writes c to USART1_TDR only right after a read of         *)
(* USART1_ISR that returned TXE set, with no register access in between,   *)
(* and writes exactly one byte per call; a read that returns TXE clear     *)
(* keeps control in the wait loop and changes nothing else, so while the   *)
(* hardware never reports TXE the program writes no register, takes no     *)
(* sample and leaves the LED alone.                                        *)
(***************************************************************************)
C7_PutcGatedByTxe == [][C7_PutcStep]_vars

\* uart_putc is spinning on a read that returned TC without TXE, three
\* bytes of the greeting already written.
C7_Witness ==
    /\ pc = "L42"
    /\ last = <<"USART1_ISR", "read">>
    /\ isr = {6}
    /\ tx = <<104, 101, 108>>

\* Positions at which bring-up has not finished.
BringUpPcs == {"L130", "L57", "L58", "L62", "L63", "L67", "L68", "L71", "L72",
               "L76", "L77"}
\* Writes one run of bring-up makes to each register.
BringUpWrites ==
    [r \in RegNames \ {"GPIOE_ODR"} |->
        IF r \in {"GPIOA_MODER", "GPIOA_AFRH", "GPIOE_MODER"} THEN 2 ELSE 1]

(***************************************************************************)
(* C8: whenever uart_putc reads USART1_ISR or writes USART1_TDR, and once  *)
(* any byte was sent or any button sample taken, the USART1 clock enable   *)
(* (RCC_APB2ENR bit 14) is set, USART1_BRR holds the divisor it was        *)
(* written with and USART1_CR1 has UE (bit 0) and TE (bit 3) set; the      *)
(* bring-up statements run exactly once each.                              *)
(***************************************************************************)
C8_DriverAfterBringUp ==
    /\ (pc \in {"L42", "L43"} \/ tx # <<>> \/ samples # <<>>) =>
          /\ pc \notin BringUpPcs
          /\ 14 \in regs["RCC_APB2ENR"]
          /\ regs["USART1_BRR"] = Bits(AssumedClockHz \div TargetBaud)
          /\ {0, 3} \subseteq regs["USART1_CR1"]
    /\ \A r \in DOMAIN BringUpWrites :
          /\ writes[r] <= BringUpWrites[r]
          /\ pc \notin BringUpPcs => writes[r] = BringUpWrites[r]

\* The first byte of the greeting is about to be written on hardware whose
\* USART1 was disabled and unclocked at reset.
C8_Witness ==
    /\ pc = "L43"
    /\ tx = <<>>
    /\ c = 104
    /\ regs0["USART1_CR1"] = {}
    /\ regs0["RCC_APB2ENR"] = {}

(***************************************************************************)
(* C9: after bring-up, for every value RCC_AHBENR and RCC_APB2ENR had at   *)
(* reset, bits 17 and 21 of RCC_AHBENR and bit 14 of RCC_APB2ENR are set   *)
(* and every other bit of both registers is as it was at reset.            *)
(***************************************************************************)
C9_ClockEnablesPreserveBits ==
    pc \notin BringUpPcs =>
        /\ {17, 21} \subseteq regs["RCC_AHBENR"]
        /\ regs["RCC_AHBENR"] \ {17, 21} = regs0["RCC_AHBENR"] \ {17, 21}
        /\ 14 \in regs["RCC_APB2ENR"]
        /\ regs["RCC_APB2ENR"] \ {14} = regs0["RCC_APB2ENR"] \ {14}

\* Bring-up has finished on hardware that had the even bits of both
\* registers set: unrelated bits were set, bits 17 and 21 were clear.
C9_Witness ==
    /\ pc = "L80"
    /\ regs0["RCC_AHBENR"] = EvenBits
    /\ regs["RCC_AHBENR"] = EvenBits \cup {17, 21}
    /\ regs["RCC_APB2ENR"] = EvenBits

(***************************************************************************)
(* C10: USART1_BRR is written once, with exactly                           *)
(* floor(8000000 / 115200) = 69, and never written again.                  *)
(***************************************************************************)
C10_BaudDivisor ==
    /\ writes["USART1_BRR"] <= 1
    /\ writes["USART1_BRR"] = 1 =>
          regs["USART1_BRR"] = Bits(AssumedClockHz \div TargetBaud)
    /\ pc \notin (BringUpPcs \ {"L77"}) => writes["USART1_BRR"] = 1

\* Four samples into the loop, on hardware whose USART1_BRR was all ones at
\* reset, the register holds 0x45.
C10_Witness ==
    /\ pc = "L89"
    /\ Len(samples) = 4
    /\ regs0["USART1_BRR"] = WordBits
    /\ regs["USART1_BRR"] = {0, 2, 6}
    /\ writes["USART1_BRR"] = 1

(***************************************************************************)
(* Where control is.                                                       *)
(***************************************************************************)
\* Positions of the statements of the polling loop.
LoopPcs == {"L89", "L91", "L92", "L94", "L95", "L97"}
\* The return addresses on the stack.
OnStack(a) == \E i \in 1..Len(stack) : stack[i] = a
\* Control is in the polling loop, or in a UART call made from it.
InLoop == pc \in LoopPcs \/ (pc \in UartPcs /\ OnStack("L95"))
\* Control is in the greeting's uart_puts call.
InGreeting == pc \in UartPcs /\ OnStack("L83")

\* A step from inside the polling loop ends inside it.
C11_LoopStep == InLoop => InLoop'

(***************************************************************************)
(* C11: main never returns: control is never at main's return statement    *)
(* (line 101) nor in Reset_Handler's trailing spin (line 131), whose       *)
(* address stays at the bottom of the stack, and once the polling loop is  *)
(* entered control stays in it or in a UART call made from it.             *)
(***************************************************************************)
C11_MainNeverReturns ==
    /\ [](pc \notin {"L101", "L131"})
    /\ [](pc # "L130" => (stack # <<>> /\ stack[Len(stack)] = "L131"))
    /\ [][C11_LoopStep]_vars

\* Deep in the loop: the second message is being sent, control is in
\* uart_putc called from the loop.
C11_Witness ==
    /\ pc = "L42"
    /\ stack = <<"L47", "L95", "L131">>
    /\ Len(samples) = 4
    /\ Messages = 1

\* An exception entry lands in Default_Handler, and a step taken there
\* changes nothing.
C12_FaultStep ==
    /\ last'[1] = "exception" => pc' = "L135"
    /\ pc = "L135" =>
          (pc' = "L135" /\ regs' = regs /\ tx' = tx /\ writes' = writes
             /\ toggles' = toggles /\ samples' = samples /\ stack' = stack)

(***************************************************************************)
(* C12: every vector other than the stack pointer and reset is             *)
(* Default_Handler (or a reserved null slot), so every exception taken     *)
(* enters Default_Handler; once there, no register is written, no byte is  *)
(* sent, the LED does not change and control never leaves.                 *)
(***************************************************************************)
C12_FaultsHalt ==
    /\ [](\A i \in 3..Len(vector_table) : vector_table[i] \in {"Default_Handler", "0"})
    /\ [](\A n \in {2, 3, 4, 5, 6, 11, 12, 14, 15} :
             vector_table[n + 1] = "Default_Handler")
    /\ [][C12_FaultStep]_vars

\* A HardFault was taken while uart_putc was sending the first button
\* message; control sits in Default_Handler.
C12_Witness ==
    /\ pc = "L135"
    /\ last = <<"exception", "HardFault">>
    /\ stack[1] = "L43"
    /\ Len(tx) = Len(HelloOut) + 5

(***************************************************************************)
(* C13: on a Pressed-to-Released transition all 16 bytes of                *)
(* "button pressed\r\n" are written first, then button_is_pressed is       *)
(* reset, then GPIOE_ODR bit 9 is toggled: the toggles never outnumber     *)
(* the complete messages, and while the message is in transmission (also   *)
(* when the UART stalls there) the LED is not yet toggled and              *)
(* button_is_pressed is still 1.                                           *)
(***************************************************************************)
C13_ReleaseOrder ==
    /\ toggles <= Messages
    /\ (InLoop /\ pc \in UartPcs) =>
          /\ button_is_pressed = 1
          /\ toggles = FallingEdges(Front(samples))
          /\ Messages = toggles + (IF pc = "L47" /\ str[s] = NUL THEN 1 ELSE 0)
    /\ pc = "L95" =>
          /\ button_is_pressed = 1
          /\ Messages = toggles + 1
          /\ Len(tx) = Len(HelloOut) + 16 * Messages
    /\ pc = "L97" =>
          /\ button_is_pressed = 0
          /\ Messages = toggles + 1

\* The UART is polled with the second message half sent: one toggle so
\* far, the flag still set.
C13_Witness ==
    /\ pc = "L42"
    /\ InLoop
    /\ Len(tx) = Len(HelloOut) + 16 + 8
    /\ toggles = 1
    /\ button_is_pressed = 1
    /\ 7 \notin isr

\* Every falling edge sampled has been answered.
AllEdgesHandled ==
    /\ Messages = FallingEdges(samples)
    /\ toggles = FallingEdges(samples)

(***************************************************************************)
(* C14: when every uart_putc that keeps polling eventually reads TXE set,  *)
(* the complete greeting is eventually sent, the polling loop is           *)
(* eventually entered, the button keeps being sampled (up to the model's   *)
(* bound on samples), and every falling edge detected is eventually        *)
(* followed by its complete message and its LED toggle.                    *)
(***************************************************************************)
C14_Progress ==
    /\ <>(tx = HelloOut)
    /\ <>(pc = "L89" /\ samples = <<>>)
    /\ (pc = "L89" /\ Len(samples) < MaxSamples) ~> (pc = "L91")
    /\ (pc = "L91") ~> (pc = "L89")
    /\ (pc = "L94") ~> (pc = "L89" /\ AllEdgesHandled)

\* Two press-release cycles were sampled and answered.
C14_Witness ==
    /\ pc = "L89"
    /\ samples = <<1, 0, 1, 0>>
    /\ AllEdgesHandled
    /\ tx = HelloOut \o ButtonOut \o ButtonOut

(***************************************************************************)
(* C15: after bring-up, for every reset value, bits 19:18 of GPIOA_MODER   *)
(* are 0b10, bits 7:4 of GPIOA's high alternate-function register are 7,   *)
(* bits 19:18 of GPIOE_MODER are 0b01, and every other bit of the three    *)
(* registers is as it was at reset.                                        *)
(***************************************************************************)
C15_PinFields ==
    pc \notin BringUpPcs =>
        /\ regs["GPIOA_MODER"] \cap {18, 19} = {19}
        /\ regs["GPIOA_MODER"] \ {18, 19} = regs0["GPIOA_MODER"] \ {18, 19}
        /\ regs["GPIOA_AFRH"] \cap {4, 5, 6, 7} = {4, 5, 6}
        /\ regs["GPIOA_AFRH"] \ {4, 5, 6, 7} = regs0["GPIOA_AFRH"] \ {4, 5, 6, 7}
        /\ regs["GPIOE_MODER"] \cap {18, 19} = {18}
        /\ regs["GPIOE_MODER"] \ {18, 19} = regs0["GPIOE_MODER"] \ {18, 19}

\* Bring-up has finished on hardware whose three registers were all ones:
\* the bits to clear were set.
C15_Witness ==
    /\ pc = "L80"
    /\ regs0["GPIOA_MODER"] = WordBits
    /\ regs["GPIOA_MODER"] = WordBits \ {18}
    /\ regs["GPIOA_AFRH"] = WordBits \ {7}
    /\ regs["GPIOE_MODER"] = WordBits \ {19}

C18_ConfigStep ==
    pc \notin BringUpPcs =>
        \A r \in RegNames \ {"GPIOE_ODR"} :
            regs'[r] = regs[r] /\ writes'[r] = writes[r]

(***************************************************************************)
(* C18: once bring-up has finished the program writes only USART1_TDR and  *)
(* bit 9 of GPIOE_ODR: every other bit of GPIOE_ODR keeps its reset value  *)
(* in every reachable state, and RCC_AHBENR, RCC_APB2ENR, GPIOA_MODER, the *)
(* GPIOA alternate-function register, GPIOE_MODER, USART1_BRR and          *)
(* USART1_CR1 are never written again.                                     *)
(***************************************************************************)
C18_OnlyTdrAndLed ==
    /\ [](regs["GPIOE_ODR"] \ {9} = regs0["GPIOE_ODR"] \ {9})
    /\ [][C18_ConfigStep]_vars

\* Two LED toggles were made on hardware whose GPIOE_ODR had its odd bits
\* set at reset.
C18_Witness ==
    /\ pc = "L89"
    /\ toggles = 2
    /\ regs0["GPIOE_ODR"] = OddBits
    /\ writes["GPIOE_ODR"] = 3
    /\ writes["USART1_TDR"] = Len(HelloOut) + 2 * Len(ButtonOut)

\* The button is read by the step at line 89 only, once, and that read
\* returns the level PA0 has at that moment.
C16_SampleStep ==
    /\ samples' # samples =>
          /\ pc = "L89" /\ pc' = "L91"
          /\ samples' = Append(samples, pin)
          /\ last' = <<"GPIOA_IDR", "read">>
    /\ (pc = "L89" /\ pc' # "L89") => Len(samples') = Len(samples) + 1
    /\ pc \in UartPcs =>
          (samples' = samples /\ button_state' = button_state
             /\ (last' # last => last' # <<"GPIOA_IDR", "read">>))

(***************************************************************************)
(* C16: GPIOA_IDR is read exactly once per loop iteration, by line 89, and *)
(* never while uart_puts is sending the greeting or a message, so level    *)
(* changes of the pin during a transmission are not observed: whatever the *)
(* pin did meanwhile, at each loop boundary messages and toggles equal the *)
(* falling edges of the levels sampled.                                    *)
(***************************************************************************)
C16_SampledOncePerIteration ==
    /\ [][C16_SampleStep]_vars
    /\ []((InGreeting \/ pc \in BringUpPcs \/ pc \in {"L80", "L83", "L86"}) =>
             samples = <<>>)
    /\ [](pc = "L89" => AllEdgesHandled)

\* The button was pressed and released again while the first message was
\* being sent; the next sample read low and nothing more was sent or toggled.
C16_Witness ==
    /\ pc = "L89"
    /\ samples = <<1, 0, 0>>
    /\ missed = 2
    /\ pin = 0
    /\ tx = HelloOut \o ButtonOut
    /\ toggles = 1

=============================================================================
